---- MODULE Spec2Model ----
(***************************************************************************)
(* Model of the multi-threaded single-domain crawler                       *)
(* (src/webcrawler/webcrawler.py): DataManager, MultithreadCrawler and     *)
(* the part of main that runs and saves a crawl; and of the sequential     *)
(* crawler PythonWebCrawler                                                *)
(* (src/webcrawler_perplexity/webcrawler_perplexity.py).                   *)
(*                                                                         *)
(* A URL string is a sequence of tokens.  The first token stands for       *)
(* "https://<netloc>" and is written as the netloc alone; every further    *)
(* token is one character of the rest of the string.                       *)
(***************************************************************************)
EXTENDS Integers, Sequences, FiniteSets, TLC

(***************************************************************************)
(* Bounds of the model                                                     *)
(***************************************************************************)
MaxWorkers == 2
MaxPagesBound == 4
MaxClock == 1
MaxItems == 3
MaxUrlLen == 4
MaxDepth == 2

\* Python's None where a timestamp is expected (timestamps are 0..MaxClock).
Null == -1

(***************************************************************************)
(* String helpers (str.endswith, str.rstrip, str.find, str.startswith)     *)
(***************************************************************************)
EndsWithSlash(s) == Len(s) > 0 /\ s[Len(s)] = "/"

RECURSIVE RStripSlash(_)
RStripSlash(s) ==
    IF EndsWithSlash(s) THEN RStripSlash(SubSeq(s, 1, Len(s) - 1)) ELSE s

Find(s, c) ==
    IF \E i \in 1..Len(s) : s[i] = c
    THEN CHOOSE i \in 1..Len(s) : s[i] = c /\ \A j \in 1..(i - 1) : s[j] /= c
    ELSE 0

StartsWith(s, p) == Len(p) <= Len(s) /\ SubSeq(s, 1, Len(p)) = p

(***************************************************************************)
(* urllib.parse: urlparse, ParseResult.geturl, urljoin                     *)
(***************************************************************************)
UrlParse(u) ==
    LET rest   == Tail(u)
        h      == Find(rest, "#")
        nofrag == IF h = 0 THEN rest ELSE SubSeq(rest, 1, h - 1)
        frag   == IF h = 0 THEN << >> ELSE SubSeq(rest, h + 1, Len(rest))
        q      == Find(nofrag, "?")
    IN  [netloc   |-> u[1],
         path     |-> IF q = 0 THEN nofrag ELSE SubSeq(nofrag, 1, q - 1),
         query    |-> IF q = 0 THEN << >> ELSE SubSeq(nofrag, q + 1, Len(nofrag)),
         fragment |-> frag]

\* urlunparse drops an empty query and an empty fragment together with
\* their "?" and "#" delimiters.
GetUrl(p) ==
    <<p.netloc>> \o p.path
        \o (IF p.query = << >> THEN << >> ELSE <<"?">> \o p.query)
        \o (IF p.fragment = << >> THEN << >> ELSE <<"#">> \o p.fragment)

Hosts == {"example.com", "other.com"}

\* The href forms that occur in the modelled sites: an absolute URL, an
\* absolute path ("/a"), and a fragment-only reference ("#x").
UrlJoin(base, href) ==
    IF href[1] \in Hosts THEN href
    ELSE IF href[1] = "#"
         THEN GetUrl([UrlParse(base) EXCEPT !.fragment = << >>]) \o href
         ELSE <<UrlParse(base).netloc>> \o href

(***************************************************************************)
(* MultithreadCrawler.normalize_url, is_same_domain, make_name_from_url    *)
(***************************************************************************)
normalize_url(u) ==
    LET no_frag == [UrlParse(u) EXCEPT !.fragment = << >>]
        n       == GetUrl(no_frag)
    IN  IF EndsWithSlash(n) /\ no_frag.path \notin {<< >>, <<"/">>}
        THEN RStripSlash(n)
        ELSE n

\* Variant of is_same_domain that accepts every host.
IsSameDomainAnyHost(u, domain) == UrlParse(u).netloc \in Hosts

is_same_domain(u, domain) == UrlParse(u).netloc = domain

\* Variant of make_name_from_url that also strips the slash of the root path.
MakeNameStripRoot(u) ==
    LET parsed == UrlParse(u)
        nm     == <<parsed.netloc>> \o parsed.path
    IN  IF EndsWithSlash(nm) THEN SubSeq(nm, 1, Len(nm) - 1) ELSE nm

make_name_from_url(u) ==
    LET parsed == UrlParse(u)
        nm     == <<parsed.netloc>> \o parsed.path
    IN  IF EndsWithSlash(nm) /\ nm /= <<parsed.netloc, "/">>
        THEN SubSeq(nm, 1, Len(nm) - 1)
        ELSE nm

(***************************************************************************)
(* The web the crawler runs against (external collaborators, spec section  *)
(* 6): a mock transport serving fixed pages, and each site's robots.txt.   *)
(* A page is [path, query, title, hrefs]; a title of "" is a page without  *)
(* a title element.  A request for anything else ends in a 404.            *)
(***************************************************************************)
Root == <<"example.com", "/">>

\* Spec section 8: "/" links to /a, /b and https://other.com/c.
ScenarioPages ==
    { [path |-> <<"/">>, query |-> << >>, title |-> "Home",
       hrefs |-> << <<"/", "a">>, <<"/", "b">>, <<"other.com", "/", "c">> >>],
      [path |-> <<"/", "a">>, query |-> << >>, title |-> "A", hrefs |-> << >>],
      [path |-> <<"/", "b">>, query |-> << >>, title |-> "B", hrefs |-> << >>] }

\* A small tree with a back link: "/" -> /a, /b; /a -> /c, "/"; /b -> /d.
TreePages ==
    { [path |-> <<"/">>, query |-> << >>, title |-> "Home",
       hrefs |-> << <<"/", "a">>, <<"/", "b">> >>],
      [path |-> <<"/", "a">>, query |-> << >>, title |-> "A",
       hrefs |-> << <<"/", "c">>, <<"/">> >>],
      [path |-> <<"/", "b">>, query |-> << >>, title |-> "B",
       hrefs |-> << <<"/", "d">> >>],
      [path |-> <<"/", "c">>, query |-> << >>, title |-> "C", hrefs |-> << >>],
      [path |-> <<"/", "d">>, query |-> << >>, title |-> "", hrefs |-> << >>] }

\* A site with a robots.txt "Disallow: /p/", links with trailing slashes,
\* an empty query and a fragment, and a dead link (/z).
PrivatePages ==
    { [path |-> <<"/">>, query |-> << >>, title |-> "Home",
       hrefs |-> << <<"/", "p", "/", "x">>, <<"/", "a", "/", "?", "/">>,
                    <<"/", "a">>, <<"#", "x">>, <<"/", "z">> >>],
      [path |-> <<"/", "a">>, query |-> << >>, title |-> "A",
       hrefs |-> << <<"/", "a", "/">> >>],
      [path |-> <<"/", "a", "/">>, query |-> << >>, title |-> "A2", hrefs |-> << >>],
      [path |-> <<"/", "p", "/">>, query |-> << >>, title |-> "P",
       hrefs |-> << <<"/", "a">> >>],
      [path |-> <<"/", "p", "/", "x">>, query |-> << >>, title |-> "PX",
       hrefs |-> << >>] }

\* A site whose root links to a dead link (/z) and to two URLs that differ
\* only in the query string, /a and /a?x, served with different titles.
QueryPages ==
    { [path |-> <<"/">>, query |-> << >>, title |-> "Home",
       hrefs |-> << <<"/", "z">>, <<"/", "a">>, <<"/", "a", "?", "x">> >>],
      [path |-> <<"/", "a">>, query |-> << >>, title |-> "A", hrefs |-> << >>],
      [path |-> <<"/", "a">>, query |-> <<"x">>, title |-> "AX",
       hrefs |-> << <<"/", "b">> >>],
      [path |-> <<"/", "b">>, query |-> << >>, title |-> "B", hrefs |-> << >>] }

\* A site whose root links to /a?x and /a, two URLs of one identity; the
\* page taken second, /a, has a link of its own.
AliasPages ==
    { [path |-> <<"/">>, query |-> << >>, title |-> "Home",
       hrefs |-> << <<"/", "a", "?", "x">>, <<"/", "a">> >>],
      [path |-> <<"/", "a">>, query |-> <<"x">>, title |-> "AX", hrefs |-> << >>],
      [path |-> <<"/", "a">>, query |-> << >>, title |-> "A",
       hrefs |-> << <<"/", "b">> >>],
      [path |-> <<"/", "b">>, query |-> << >>, title |-> "B", hrefs |-> << >>] }

Pages(s) ==
    CASE s = "scenario" -> ScenarioPages
      [] s = "tree"     -> TreePages
      [] s = "private"  -> PrivatePages
      [] s = "query"    -> QueryPages
      [] s = "alias"    -> AliasPages

\* The Disallow prefixes of the site's robots.txt for user-agent *.
RobotsTxt(s) == IF s = "private" THEN { <<"/", "p", "/">> } ELSE { }

\* What is sent on the wire for a URL: path (or "/") and query; the
\* fragment stays with the client.
Target(u) ==
    LET p == UrlParse(u)
    IN  [path |-> IF p.path = << >> THEN <<"/">> ELSE p.path, query |-> p.query]

\* session.get + raise_for_status: the body of the page, or no body on a
\* non-2xx status.
NoHtml == [ok |-> FALSE, title |-> "", hrefs |-> << >>]

HttpGet(s, u) ==
    LET hit == { pg \in Pages(s) : pg.path = Target(u).path /\ pg.query = Target(u).query }
    IN  IF hit = { } THEN NoHtml
        ELSE LET pg == CHOOSE x \in hit : TRUE
             IN  [ok |-> TRUE, title |-> pg.title, hrefs |-> pg.hrefs]

\* urllib.robotparser: a URL is disallowed when a Disallow rule is a prefix
\* of its path (with "?query" when the query is not empty).
RobotsDisallows(rules, u) ==
    LET t  == Target(u)
        fn == t.path \o (IF t.query = << >> THEN << >> ELSE <<"?">> \o t.query)
    IN  \E r \in rules : StartsWith(fn, r)

(***************************************************************************)
(* The persisted state file and DataManager                                *)
(***************************************************************************)
\* json_file contents: no file ("missing"), a file that is no JSON
\* ("corrupt"), a legacy list of [identity, title] pairs (with an item that
\* is no list and a list that is too short), the new mapping identity ->
\* record ("dict"), or another JSON value such as a number ("scalar").
\* A JSON list item is [islist, elems].
Rec(nm, t, f, l) ==
    [name |-> nm, title |-> t, first_crawled |-> f, last_crawled |-> l]

EmptyDict == [n \in { } |-> Rec(n, "", Null, Null)]

LegacyList ==
    << [islist |-> TRUE, elems |-> <<Root, "Old">>],
       [islist |-> FALSE, elems |-> << >>],
       [islist |-> TRUE, elems |-> << <<"example.com", "/", "q">> >>],
       [islist |-> TRUE, elems |-> << <<"example.com", "/", "b">>, "OldB" >>] >>

SavedDict == [n \in {<<"example.com", "/", "a">>} |-> Rec(n, "OldA", 0, 0)]

Files ==
    { [kind |-> "missing", items |-> << >>, data |-> EmptyDict],
      [kind |-> "list", items |-> LegacyList, data |-> EmptyDict],
      [kind |-> "dict", items |-> << >>, data |-> SavedDict] }

\* The forms of the items of a legacy list: two pairs of the same identity,
\* a pair of another identity, an item that is no list, a list of length 1,
\* and a list of length 3.
LegacyItems ==
    { [islist |-> TRUE, elems |-> <<Root, "Old">>],
      [islist |-> TRUE, elems |-> <<Root, "New">>],
      [islist |-> TRUE, elems |-> << <<"example.com", "/", "b">>, "OldB" >>],
      [islist |-> FALSE, elems |-> << >>],
      [islist |-> TRUE, elems |-> << <<"example.com", "/", "q">> >>],
      [islist |-> TRUE, elems |-> << <<"example.com", "/", "a">>, "OldA", "extra" >>] }

\* Every state file that load is run on: the legacy lists of up to MaxItems
\* items, and one file of each other kind ("undecodable" is a file whose
\* bytes are no UTF-8 text).
LoadFiles ==
    { [kind |-> "list", items |-> l, data |-> EmptyDict] :
          l \in UNION { [1..n -> LegacyItems] : n \in 0..MaxItems } }
    \cup { [kind |-> k, items |-> << >>, data |-> EmptyDict] :
              k \in {"missing", "corrupt", "scalar", "undecodable"} }
    \cup { [kind |-> "dict", items |-> << >>, data |-> SavedDict] }

\* open/json.load raise an exception that _load_data does not catch
\* (UnicodeDecodeError is neither JSONDecodeError nor IOError).
LoadRaises(f) == f.kind = "undecodable"

\* A loaded JSON value that is no object: it is returned as it is (line 53)
\* and supports neither "name in data" nor item assignment.
NotAMapping == [n \in { <<"not a mapping">> } |-> Rec(n, "", Null, Null)]

IsMapping(d) == d /= NotAMapping

\* Variant of _load_data that stamps the converted records with time 0.
LoadDataStamped(f) ==
    CASE f.kind \in {"missing", "corrupt"} -> EmptyDict
      [] f.kind = "list" ->
            LET good == { i \in 1..Len(f.items) :
                             f.items[i].islist /\ Len(f.items[i].elems) >= 2 }
                keys == { f.items[i].elems[1] : i \in good }
                last(k) == CHOOSE i \in good :
                              /\ f.items[i].elems[1] = k
                              /\ \A j \in good : f.items[j].elems[1] = k => j <= i
            IN  [k \in keys |-> Rec(k, f.items[last(k)].elems[2], 0, 0)]
      [] f.kind = "dict" -> f.data
      [] f.kind = "scalar" -> NotAMapping

\* DataManager._load_data
LoadData(f) ==
    CASE f.kind = "missing" -> EmptyDict
      [] f.kind = "corrupt" -> EmptyDict
      [] f.kind = "scalar" -> NotAMapping
      [] f.kind = "list" ->
            LET good == { i \in 1..Len(f.items) :
                             f.items[i].islist /\ Len(f.items[i].elems) >= 2 }
                keys == { f.items[i].elems[1] : i \in good }
                last(k) == CHOOSE i \in good :
                              /\ f.items[i].elems[1] = k
                              /\ \A j \in good : f.items[j].elems[1] = k => j <= i
            IN  [k \in keys |-> Rec(k, f.items[last(k)].elems[2], Null, Null)]
      [] f.kind = "dict" -> f.data

\* Variant of add_or_update whose update branch writes a fresh record.
AddOrUpdateOverwrite(d, nm, t, now) ==
    [data   |-> [k \in DOMAIN d \cup {nm} |->
                    IF k = nm THEN Rec(nm, t, now, now) ELSE d[k]],
     is_new |-> nm \notin DOMAIN d]

\* Variant of add_or_update whose update branch stamps first_crawled.
AddOrUpdateStampFirst(d, nm, t, now) ==
    LET is_new == nm \notin DOMAIN d
    IN  [data   |-> IF is_new
                    THEN [k \in DOMAIN d \cup {nm} |->
                            IF k = nm THEN Rec(nm, t, now, now) ELSE d[k]]
                    ELSE [d EXCEPT ![nm].title = t, ![nm].first_crawled = now],
         is_new |-> is_new]

\* DataManager.add_or_update: the new mapping and the value returned.
add_or_update(d, nm, t, now) ==
    LET is_new == nm \notin DOMAIN d
    IN  [data   |-> IF is_new
                    THEN [k \in DOMAIN d \cup {nm} |->
                            IF k = nm THEN Rec(nm, t, now, now) ELSE d[k]]
                    ELSE [d EXCEPT ![nm].title = t, ![nm].last_crawled = now],
         is_new |-> is_new]

\* The calendar date of a timestamp; the clock counts days.
DateOf(t) == t

\* DataManager.get_stats read on the day today: the three counters, or no
\* result (ok = FALSE) when None.startswith raises AttributeError for a
\* record whose timestamp is None.
NoStats == [ok |-> FALSE, total |-> 0, added_today |-> 0, updated_today |-> 0]

get_stats(d, today) ==
    IF DOMAIN d = { }
    THEN [ok |-> TRUE, total |-> 0, added_today |-> 0, updated_today |-> 0]
    ELSE IF \E k \in DOMAIN d :
                d[k].first_crawled = Null \/ d[k].last_crawled = Null
         THEN NoStats
         ELSE [ok            |-> TRUE,
               total         |-> Cardinality(DOMAIN d),
               added_today   |-> Cardinality({ k \in DOMAIN d :
                                     DateOf(d[k].first_crawled) = today }),
               updated_today |-> Cardinality({ k \in DOMAIN d :
                                     DateOf(d[k].last_crawled) = today })]

(***************************************************************************)
(* MultithreadCrawler: robots check, fetch, extraction                     *)
(***************************************************************************)
\* robot_parser is NoRobots when _load_robots failed (it returned None),
\* otherwise the set of Disallow prefixes read from robots.txt.
NoRobots == { <<"unreachable">> }

\* The parser is asked about the normalized URL (line 219).
can_fetch(rp, u) ==
    IF rp = NoRobots THEN TRUE
    ELSE \A n \in {normalize_url(u)} : ~RobotsDisallows(rp, n)

\* fetch: [get, html]: whether a GET was issued, and the body returned
\* (NoHtml stands for the None of every failure path).
fetch(s, rp, u) ==
    IF ~can_fetch(rp, u)
    THEN [get |-> FALSE, html |-> NoHtml]
    ELSE [get |-> TRUE, html |-> HttpGet(s, u)]

\* lines 261-267: the hrefs made absolute, those of the crawl's domain kept,
\* each of them normalized.
NormalizeEach(kept) == [i \in 1..Len(kept) |-> normalize_url(kept[i])]

extract_title_and_links(base_url, html, dom) ==
    LET absolute == [i \in 1..Len(html.hrefs) |-> UrlJoin(base_url, html.hrefs[i])]
        same(a)  == is_same_domain(a, dom)
    IN  [title |-> IF html.title = "" THEN "No Title" ELSE html.title,
         links |-> CHOOSE ls \in { NormalizeEach(kept) :
                                      kept \in {SelectSeq(absolute, same)} } : TRUE]

(***************************************************************************)
(* The frontier operations of MultithreadCrawler.worker                    *)
(***************************************************************************)
\* Variant of the exit test without the page budget.
ExhaustedQueueOnly(tv, vis, mp) == tv = << >>

\* Variant of the exit test that lets a worker return at its first test.
ExhaustedAtOnce(tv, vis, mp) == TRUE

\* line 291: the worker returns
Exhausted(tv, vis, mp) == tv = << >> \/ Cardinality(vis) >= mp

\* line 295: deque.popleft leaves the tail
PopLeft(tv) == Tail(tv)

\* Variant of the re-check that never finds the key.
NeverVisited(n, vis) == FALSE

\* line 300: the re-check after the dequeue
AlreadyVisited(n, vis) == n \in vis

\* line 329
AlreadyKnown(link, vis, tvs) == link \in vis \/ link \in tvs

\* Variant of the budget test of the link loop that lets every link in.
BudgetNeverReached(tv, vis, mp) == FALSE

\* line 331
BudgetReached(tv, vis, mp) == Cardinality(vis) + Len(tv) >= mp

\* Variant of the append that puts the link at the head of the queue.
AppendLeft(tv, link) == <<link>> \o tv

\* line 333: deque.append
AppendLink(tv, link) == Append(tv, link)

\* lines 328-334: the loop over the links, with its continue and break;
\* added lists the links that were appended, in the order of the appends.
RECURSIVE EnqueueLinks(_, _, _, _, _)
EnqueueLinks(ls, tv, tvs, vis, mp) ==
    IF ls = << >> THEN [to_visit |-> tv, to_visit_set |-> tvs, added |-> << >>]
    ELSE IF AlreadyKnown(Head(ls), vis, tvs)
         THEN EnqueueLinks(Tail(ls), tv, tvs, vis, mp)
         ELSE IF BudgetReached(tv, vis, mp)
              THEN [to_visit |-> tv, to_visit_set |-> tvs, added |-> << >>]
              ELSE [EnqueueLinks(Tail(ls), AppendLink(tv, Head(ls)),
                                 tvs \cup {Head(ls)}, vis, mp)
                        EXCEPT !.added = <<Head(ls)>> \o @]

(***************************************************************************)
(* threading.Lock and the "with self.lock" blocks                          *)
(***************************************************************************)
\* Variant of the lock that every thread can take at any time.
LockAlwaysFree(l) == TRUE

\* Lock.acquire goes through when no thread holds the lock.
LockFree(l) == l = 0

\* Variant of the block exit that leaves the lock with its holder.
HoldLock(l) == l

\* Variant of the exception path that does not touch the lock.
LockKeptAfterRaise(l, w) == l

\* An exception that leaves a "with self.lock" block frees the lock when the
\* raising thread w holds it.
LockAfterRaise(l, w) == IF l = w THEN 0 ELSE l

\* Leaving a "with self.lock" block, normally or by an exception, frees it.
ReleaseLock(l) == 0

\* Variant of the join for which no future ever completes.
NeverComplete(p) == FALSE

\* lines 344-348: a future is complete when its worker returned or raised.
Terminated(p) == p \in {"done", "failed"}

(***************************************************************************)
(* State                                                                   *)
(***************************************************************************)
VARIABLES
    site,            \* the web site behind the HTTP transport
    start_url, max_pages, max_workers,   \* constructor arguments
    robot_parser,    \* result of _load_robots
    json_file,       \* contents of the persisted state file
    stats,           \* result of get_stats in main
    data,            \* DataManager.data
    clock,           \* the wall clock read by datetime.now()
    is_new,          \* value returned by the last add_or_update call
    to_visit, to_visit_set, visited, processed_names,
    lock,            \* 0 when free, else the worker holding it
    state,           \* main: Idle, Running, Draining, Saved, Done, Fatal
    pc,              \* each worker's position in worker()
    url, norm, html, title, links, name, \* each worker's locals
    taken,           \* history: the keys passed to fetch, in order
    requested,       \* history: the URLs a GET was issued for
    observed,        \* history: identity -> title of the page extracted last
    appended,        \* history: every entry put into to_visit, in order
    dequeued,        \* history: every entry popped from to_visit, in order
    raised           \* history: the workers that raised, with the place

\* The sequential crawler, PythonWebCrawler (site and max_pages are shared)
VARIABLES
    start_urls, max_depth,      \* constructor arguments
    visited_urls, url_queue, crawled_pages,
    pwc,             \* position in crawl(): new, loop, page, done
    current,         \* crawl's locals current_url and depth
    calls            \* history: the arguments of _crawl_single_page, in order

vars == <<site, start_url, max_pages, max_workers, robot_parser, json_file,
          stats, data, clock, is_new, to_visit, to_visit_set, visited,
          processed_names, lock, state, pc, url, norm, html, title, links,
          name, taken, requested, observed, appended, dequeued, raised,
          start_urls, max_depth, visited_urls, url_queue, crawled_pages,
          pwc, current, calls>>

sequential == <<start_urls, max_depth, visited_urls, url_queue, crawled_pages,
                pwc, current, calls>>

\* What no step of MultithreadCrawler changes: its constructor arguments
\* and the PythonWebCrawler object.
config == <<site, start_url, max_pages, max_workers, robot_parser, sequential>>
files == <<json_file, stats>>
history == <<taken, requested, observed, appended, dequeued, raised>>
frontier == <<to_visit, to_visit_set, visited>>
locals == <<url, norm, html, title, links, name>>
store == <<data, clock, is_new, processed_names>>

multithread == <<start_url, max_workers, robot_parser, files, store, frontier,
                 lock, state, pc, locals, history>>

Workers == 1..max_workers

\* No entry of url_queue is being processed.
NoEntry == [url |-> << >>, depth |-> 0]

\* No PythonWebCrawler has been constructed.
NoPythonWebCrawler ==
    /\ start_urls = << >>
    /\ max_depth = 0
    /\ visited_urls = { }
    /\ url_queue = << >>
    /\ crawled_pages = << >>
    /\ pwc = "none"
    /\ current = NoEntry
    /\ calls = << >>

\* self.domain, line 146
domain == UrlParse(start_url).netloc

\* The crawls that are run: site, start URL, whether robots.txt loads, and
\* the kinds of state file the crawl is started with.
Crawls ==
    { [site |-> "scenario", start |-> Root, robots |-> FALSE,
       files |-> {"missing", "list", "dict"}],
      [site |-> "tree", start |-> Root, robots |-> TRUE, files |-> {"missing"}],
      [site |-> "private", start |-> Root, robots |-> TRUE, files |-> {"missing"}],
      [site |-> "private", start |-> <<"example.com", "/", "p", "/">>,
       robots |-> TRUE, files |-> {"dict"}],
      [site |-> "query", start |-> Root, robots |-> TRUE, files |-> {"missing"}],
      [site |-> "alias", start |-> Root, robots |-> TRUE, files |-> {"missing"}] }

\* datetime.now(): the clock does not run backwards; it stops at MaxClock.
Nows(c) == c..(IF c < MaxClock THEN c + 1 ELSE c)

\* DataManager.__init__ and MultithreadCrawler.__init__ for the crawl c with
\* page budget mp, w workers and state file f
Construct(c, mp, w, f) ==
        /\ site = c.site
        /\ start_url = c.start
        /\ max_pages = mp
        /\ max_workers = w
        /\ robot_parser = IF c.robots THEN RobotsTxt(c.site) ELSE NoRobots
        /\ json_file = f
        /\ stats = NoStats
        /\ data = LoadData(f)
        /\ clock = 0
        /\ is_new = FALSE
        /\ to_visit = <<c.start>>
        /\ to_visit_set = {normalize_url(c.start)}
        /\ visited = { }
        /\ processed_names = { }
        /\ lock = 0
        /\ state = "Idle"
        /\ pc = [i \in 1..w |-> "new"]
        /\ url = [i \in 1..w |-> << >>]
        /\ norm = [i \in 1..w |-> << >>]
        /\ html = [i \in 1..w |-> NoHtml]
        /\ title = [i \in 1..w |-> ""]
        /\ links = [i \in 1..w |-> << >>]
        /\ name = [i \in 1..w |-> << >>]
        /\ taken = << >>
        /\ requested = { }
        /\ observed = [n \in { } |-> ""]
        /\ appended = <<c.start>>
        /\ dequeued = << >>
        /\ raised = { }

Init ==
    \E c \in Crawls, mp \in 0..MaxPagesBound, w \in 1..MaxWorkers, f \in Files :
        /\ f.kind \in c.files
        /\ Construct(c, mp, w, f)
        /\ NoPythonWebCrawler

\* The crawls with one worker more than MaxWorkers and the largest page
\* budget, on the sites that have three pages to fetch at the same time.
InitPar ==
    \E c \in Crawls, f \in Files :
        /\ c.site \in {"private", "query"}
        /\ f.kind \in c.files
        /\ Construct(c, MaxPagesBound, MaxWorkers + 1, f)
        /\ NoPythonWebCrawler

(***************************************************************************)
(* crawl(): submit the workers, wait for all of them; main(): save         *)
(***************************************************************************)
Crawl ==
    /\ state = "Idle"
    /\ state' = "Running"
    /\ pc' = [i \in Workers |-> "lock_take"]
    /\ UNCHANGED <<config, files, store, frontier, lock, locals, history>>

Join ==
    /\ state = "Running"
    /\ \A i \in Workers : Terminated(pc[i])
    /\ state' = "Draining"
    /\ UNCHANGED <<config, files, store, frontier, lock, pc, locals, history>>

Save ==
    /\ state = "Draining"
    /\ json_file' = [kind |-> "dict", items |-> << >>, data |-> data]
    /\ state' = "Saved"
    /\ UNCHANGED <<config, stats, store, frontier, lock, pc, locals, history>>

\* main, lines 420-432: get_stats and the summary; an exception of
\* get_stats ends main in its "Fatal error" handler (lines 456-458).
Stats ==
    /\ state = "Saved"
    /\ \E now \in Nows(clock) :
          /\ clock' = now
          /\ \E r \in {get_stats(data, DateOf(now))} :
                /\ stats' = r
                /\ state' = IF r.ok THEN "Done" ELSE "Fatal"
    /\ UNCHANGED <<config, json_file, data, is_new, processed_names, frontier,
                   lock, pc, locals, history>>

(***************************************************************************)
(* worker(), lines 285-334                                                 *)
(***************************************************************************)
\* "with self.lock": entering one of the three critical sections
Acquire(w) ==
    /\ pc[w] \in {"lock_take", "lock_store", "lock_links"}
    /\ LockFree(lock)
    /\ lock' = w
    /\ pc' = [pc EXCEPT ![w] = CASE pc[w] = "lock_take"  -> "take"
                                 [] pc[w] = "lock_store" -> "store"
                                 [] pc[w] = "lock_links" -> "links"]
    /\ UNCHANGED <<config, files, store, frontier, state, locals, history>>

Reset(w) ==
    /\ url' = [url EXCEPT ![w] = << >>]
    /\ norm' = [norm EXCEPT ![w] = << >>]
    /\ html' = [html EXCEPT ![w] = NoHtml]
    /\ title' = [title EXCEPT ![w] = ""]
    /\ links' = [links EXCEPT ![w] = << >>]
    /\ name' = [name EXCEPT ![w] = << >>]

\* Variant of line 292 in which the worker starts its loop again.
WorkerRestarts == "lock_take"

\* line 292: "return" ends worker()
WorkerReturns == "done"

\* lines 291-292: queue empty or budget reached, the worker returns
WorkerExit(w) ==
    /\ pc[w] = "take"
    /\ Exhausted(to_visit, visited, max_pages)
    /\ pc' = [pc EXCEPT ![w] = WorkerReturns]
    /\ lock' = ReleaseLock(lock)
    /\ UNCHANGED <<config, files, store, frontier, state, locals, history>>

\* lines 295-301: dequeue, the key is already visited, continue
TakeSkip(w) ==
    /\ pc[w] = "take"
    /\ ~Exhausted(to_visit, visited, max_pages)
    /\ AlreadyVisited(normalize_url(Head(to_visit)), visited)
    /\ to_visit' = PopLeft(to_visit)
    /\ to_visit_set' = to_visit_set \ {normalize_url(Head(to_visit))}
    /\ pc' = [pc EXCEPT ![w] = "lock_take"]
    /\ lock' = ReleaseLock(lock)
    /\ dequeued' = Append(dequeued, Head(to_visit))
    /\ UNCHANGED <<config, files, store, visited, state, locals, taken, requested,
                   observed, appended, raised>>

\* lines 295-304: dequeue and mark visited before the lock is released
TakeNext(w) ==
    /\ pc[w] = "take"
    /\ ~Exhausted(to_visit, visited, max_pages)
    /\ ~AlreadyVisited(normalize_url(Head(to_visit)), visited)
    /\ to_visit' = PopLeft(to_visit)
    /\ to_visit_set' = to_visit_set \ {normalize_url(Head(to_visit))}
    /\ visited' = visited \cup {normalize_url(Head(to_visit))}
    /\ url' = [url EXCEPT ![w] = Head(to_visit)]
    /\ norm' = [norm EXCEPT ![w] = normalize_url(Head(to_visit))]
    /\ taken' = Append(taken, normalize_url(Head(to_visit)))
    /\ pc' = [pc EXCEPT ![w] = "fetch"]
    /\ lock' = ReleaseLock(lock)
    /\ dequeued' = Append(dequeued, Head(to_visit))
    /\ UNCHANGED <<config, files, store, state, html, title, links, name, requested,
                   observed, appended, raised>>

\* Variant of line 311 in which the worker returns.
NoPageReturns == "done"

\* line 311: "continue" takes the worker back to the head of its loop
NoPageContinues == "lock_take"

\* lines 309-311: fetch outside the lock; no page data, continue
Fetch(w) ==
    /\ pc[w] = "fetch"
    /\ \E r \in {fetch(site, robot_parser, url[w])} :
           /\ requested' = IF r.get THEN requested \cup {url[w]} ELSE requested
           /\ IF r.html.ok
              THEN /\ html' = [html EXCEPT ![w] = r.html]
                   /\ pc' = [pc EXCEPT ![w] = "extract"]
                   /\ UNCHANGED <<url, norm, title, links, name>>
              ELSE /\ Reset(w)
                   /\ pc' = [pc EXCEPT ![w] = NoPageContinues]
    /\ UNCHANGED <<config, files, store, frontier, lock, state, taken, observed,
                   appended, dequeued, raised>>

\* lines 313-314
Extract(w) ==
    /\ pc[w] = "extract"
    /\ \E r \in {extract_title_and_links(url[w], html[w], domain)} :
           /\ title' = [title EXCEPT ![w] = r.title]
           /\ links' = [links EXCEPT ![w] = r.links]
           /\ \E nm \in {make_name_from_url(url[w])} :
                 /\ name' = [name EXCEPT ![w] = nm]
                 /\ observed' = [k \in DOMAIN observed \cup {nm} |->
                                    IF k = nm THEN r.title ELSE observed[k]]
    /\ pc' = [pc EXCEPT ![w] = "lock_store"]
    /\ UNCHANGED <<config, files, store, frontier, lock, state, url, norm, html,
                   taken, requested, appended, dequeued, raised>>

\* Variant of line 318 that stores every fetched page.
NeverProcessed(nm, pn) == TRUE

\* line 318: "if name not in self.processed_names"
NotProcessed(nm, pn) == nm \notin pn

\* lines 317-324: the first page of an identity is stored
Store(w) ==
    /\ pc[w] = "store"
    /\ IF NotProcessed(name[w], processed_names)
       THEN \E now \in Nows(clock) :
               LET r == add_or_update(data, name[w], title[w], now)
               IN  /\ processed_names' = processed_names \cup {name[w]}
                   /\ data' = r.data
                   /\ is_new' = r.is_new
                   /\ clock' = now
       ELSE UNCHANGED store
    /\ pc' = [pc EXCEPT ![w] = "lock_links"]
    /\ lock' = ReleaseLock(lock)
    /\ UNCHANGED <<config, files, frontier, state, locals, history>>

\* lines 327-334: the new links are appended, then the loop starts over
Enqueue(w) ==
    /\ pc[w] = "links"
    /\ LET r == EnqueueLinks(links[w], to_visit, to_visit_set, visited, max_pages)
       IN  /\ to_visit' = r.to_visit
           /\ to_visit_set' = r.to_visit_set
           /\ appended' = appended \o r.added
    /\ Reset(w)
    /\ pc' = [pc EXCEPT ![w] = "lock_take"]
    /\ lock' = ReleaseLock(lock)
    /\ UNCHANGED <<config, files, store, visited, state, taken, requested, observed,
                   dequeued, raised>>

Next ==
    \/ Crawl
    \/ Join
    \/ Save
    \/ Stats
    \/ \E w \in Workers : Acquire(w)
    \/ \E w \in Workers : WorkerExit(w)
    \/ \E w \in Workers : TakeSkip(w)
    \/ \E w \in Workers : TakeNext(w)
    \/ \E w \in Workers : Fetch(w)
    \/ \E w \in Workers : Extract(w)
    \/ \E w \in Workers : Store(w)
    \/ \E w \in Workers : Enqueue(w)

Spec == Init /\ [][Next]_vars

SpecPar == InitPar /\ [][Next]_vars

\* Some thread that can run does run: the crawl does not stop while a step
\* is possible.
Fairness == WF_vars(Next)

FairSpec == Spec /\ Fairness

(***************************************************************************)
(* The crawl with an unexpected exception: one worker of the crawl raises  *)
(* at any point of its loop.  The exception leaves the "with self.lock"    *)
(* block the worker is in, ends worker(), and is kept in the worker's      *)
(* future.  The crawls run on one site and start from an empty store.      *)
(***************************************************************************)
InitExc ==
    /\ Init
    /\ json_file.kind = "missing"
    /\ start_url = Root
    /\ site = "private"

\* An exception in the first critical section, before the dequeue or after
\* it (lines 295-297) with the key not yet marked visited.
RaiseInTake(w) ==
    /\ pc[w] = "take"
    /\ \/ UNCHANGED <<to_visit, to_visit_set, dequeued>>
       \/ /\ ~Exhausted(to_visit, visited, max_pages)
          /\ to_visit' = PopLeft(to_visit)
          /\ to_visit_set' = to_visit_set \ {normalize_url(Head(to_visit))}
          /\ dequeued' = Append(dequeued, Head(to_visit))
    /\ UNCHANGED <<visited, store>>

\* An exception in the second critical section, before line 319 or in
\* add_or_update with the identity already marked as processed.
RaiseInStore(w) ==
    /\ pc[w] = "store"
    /\ \/ UNCHANGED processed_names
       \/ /\ name[w] \notin processed_names
          /\ processed_names' = processed_names \cup {name[w]}
    /\ UNCHANGED <<frontier, data, clock, is_new, dequeued>>

\* An exception anywhere else: waiting for the lock, in fetch, in
\* extraction, or at the head of the link loop.
RaiseElsewhere(w) ==
    /\ pc[w] \in {"lock_take", "fetch", "extract", "lock_store", "lock_links", "links"}
    /\ UNCHANGED <<frontier, store, dequeued>>

Raise(w) ==
    /\ state = "Running"
    /\ raised = { }
    /\ RaiseInTake(w) \/ RaiseInStore(w) \/ RaiseElsewhere(w)
    /\ lock' = LockAfterRaise(lock, w)
    /\ pc' = [pc EXCEPT ![w] = "failed"]
    /\ raised' = { [worker |-> w, locked |-> lock = w] }
    /\ Reset(w)
    /\ UNCHANGED <<config, files, state, taken, requested, observed, appended>>

NextExc ==
    \/ Crawl
    \/ Join
    \/ Save
    \/ Stats
    \/ \E w \in Workers : Acquire(w)
    \/ \E w \in Workers : WorkerExit(w)
    \/ \E w \in Workers : TakeSkip(w)
    \/ \E w \in Workers : TakeNext(w)
    \/ \E w \in Workers : Fetch(w)
    \/ \E w \in Workers : Extract(w)
    \/ \E w \in Workers : Store(w)
    \/ \E w \in Workers : Enqueue(w)
    \/ \E w \in Workers : Raise(w)

SpecExc == InitExc /\ [][NextExc]_vars

FairSpecExc == SpecExc /\ WF_vars(NextExc)

(***************************************************************************)
(* The crawl with an interrupt: KeyboardInterrupt reaches the coordinator  *)
(* while it waits in as_completed.  It is not an Exception, so line 347    *)
(* does not catch it; it leaves the "with ThreadPoolExecutor" block, whose *)
(* exit waits for the worker threads, and then reaches main's handler.     *)
(* The workers have no stop flag and run their loop as before.             *)
(***************************************************************************)
InitInt == InitExc

\* lines 342-348: the interrupt leaves the loop over as_completed; the
\* executor's shutdown now waits for the workers
Interrupt ==
    /\ state = "Running"
    /\ state' = "Interrupted"
    /\ UNCHANGED <<config, files, store, frontier, lock, pc, locals, history>>

\* lines 453-455: the workers have returned, the shutdown ends, main logs
\* the interrupt and exits with status 0; crawl() has not returned and
\* save() is not called
ExitInterrupted ==
    /\ state = "Interrupted"
    /\ \A i \in Workers : Terminated(pc[i])
    /\ state' = "Exited"
    /\ UNCHANGED <<config, files, store, frontier, lock, pc, locals, history>>

NextInt ==
    \/ Crawl
    \/ Join
    \/ Save
    \/ Stats
    \/ Interrupt
    \/ ExitInterrupted
    \/ \E w \in Workers : Acquire(w)
    \/ \E w \in Workers : WorkerExit(w)
    \/ \E w \in Workers : TakeSkip(w)
    \/ \E w \in Workers : TakeNext(w)
    \/ \E w \in Workers : Fetch(w)
    \/ \E w \in Workers : Extract(w)
    \/ \E w \in Workers : Store(w)
    \/ \E w \in Workers : Enqueue(w)

SpecInt == InitInt /\ [][NextInt]_vars

(***************************************************************************)
(* The sequential crawler, PythonWebCrawler                                *)
(* (src/webcrawler_perplexity/webcrawler_perplexity.py): crawl() takes one *)
(* (url, depth) entry after the other from url_queue and hands it to       *)
(* _crawl_single_page, which requests the page and appends its internal    *)
(* links one level deeper.                                                 *)
(***************************************************************************)
\* line 46: the constructor's default
same_domain_only == TRUE

\* _extract_domains: the netlocs of the start URLs
allowed_domains == { UrlParse(start_urls[i]).netloc : i \in DOMAIN start_urls }

\* line 133: url.split('#')[0]
BeforeHash(s) ==
    LET h == Find(s, "#") IN IF h = 0 THEN s ELSE SubSeq(s, 1, h - 1)

\* lines 140-141: urlencode(sorted(parse_qsl(query))).  parse_qsl drops a
\* field that has no value; no query of the modelled sites has an "=", so
\* nothing is left of it.
SortedQuery(q) == << >>

\* _normalize_url: the fragment is cut off, the rest is joined to the base
\* (an empty rest gives the base), and the query is sorted; the "?" of a
\* query that was not empty before the sorting is kept.
PWC_normalize_url(href, base_url) ==
    IF href = << >> THEN << >>
    ELSE LET stripped == BeforeHash(href)
             joined   == IF stripped = << >> THEN base_url
                         ELSE UrlJoin(base_url, stripped)
             parsed   == UrlParse(joined)
         IN  IF parsed.query /= << >>
             THEN <<parsed.netloc>> \o parsed.path \o <<"?">>
                      \o SortedQuery(parsed.query)
             ELSE <<parsed.netloc>> \o parsed.path

\* _is_valid_url: scheme and netloc present, an allowed domain, not yet
\* visited.  No URL of the modelled sites ends in an excluded extension.
PWC_is_valid_url(u, vis) ==
    /\ u /= << >>
    /\ same_domain_only => UrlParse(u).netloc \in allowed_domains
    /\ u \notin vis

\* _extract_page_data, links_internal: list(set(...)) of the valid links
\* of an allowed domain
links_internal(base_url, page, vis) ==
    { n \in { PWC_normalize_url(page.hrefs[i], base_url) : i \in DOMAIN page.hrefs } :
          PWC_is_valid_url(n, vis) /\ UrlParse(n).netloc \in allowed_domains }

\* The orders in which a Python set can be iterated.
Orders(S) ==
    { f \in [1..Cardinality(S) -> S] :
          \A i, j \in 1..Cardinality(S) : i /= j => f[i] /= f[j] }

\* line 247: the loop condition of crawl()
LoopRuns(q, vis, mp) == q /= << >> /\ Cardinality(vis) < mp

\* Variant of line 252 that never finds the URL.
NeverSeen(u, vis) == FALSE

\* line 252: "if current_url in self.visited_urls"
SeenBefore(u, vis) == u \in vis

\* Variant of line 227 without the depth limit.
DepthAlwaysAllows(d, md) == TRUE

\* line 227: "if depth < self.max_depth"
DepthAllows(d, md) == d < md

\* lines 228-231: the loop over links_internal
RECURSIVE AppendLinks(_, _, _, _, _)
AppendLinks(order, q, vis, mp, d) ==
    IF order = << >> THEN q
    ELSE AppendLinks(Tail(order),
                     IF Head(order) \notin vis /\ Cardinality(vis) < mp
                     THEN Append(q, [url |-> Head(order), depth |-> d + 1])
                     ELSE q,
                     vis, mp, d)

\* The crawls that are run: site and start URLs (two start URLs; the same
\* start URL twice and a start URL that gives a 404).
SeqCrawls ==
    { [site |-> "alias", starts |-> <<Root>>],
      [site |-> "tree", starts |-> <<Root>>],
      [site |-> "private", starts |-> <<Root, <<"example.com", "/", "p", "/">> >>],
      [site |-> "scenario", starts |-> <<Root, Root, <<"example.com", "/", "z">> >>] }

\* lines 42-64; the multi-threaded crawler is constructed and never run
InitSeq ==
    \E c \in SeqCrawls, mp \in 0..MaxPagesBound, md \in (-1)..MaxDepth,
       f \in { x \in Files : x.kind = "missing" } :
        /\ Construct([site |-> c.site, start |-> Root, robots |-> FALSE], mp, 1, f)
        /\ start_urls = c.starts
        /\ max_depth = md
        /\ visited_urls = { }
        /\ url_queue = [i \in DOMAIN c.starts |-> [url |-> c.starts[i], depth |-> 0]]
        /\ crawled_pages = << >>
        /\ pwc = "new"
        /\ current = NoEntry
        /\ calls = << >>

\* lines 242-246: crawl() is called
CrawlBegin ==
    /\ pwc = "new"
    /\ pwc' = "loop"
    /\ UNCHANGED <<site, max_pages, multithread, start_urls, max_depth,
                   visited_urls, url_queue, crawled_pages, current, calls>>

\* lines 247-253: the entry taken from the queue is already visited
CrawlSkip ==
    /\ pwc = "loop"
    /\ LoopRuns(url_queue, visited_urls, max_pages)
    /\ SeenBefore(Head(url_queue).url, visited_urls)
    /\ url_queue' = Tail(url_queue)
    /\ UNCHANGED <<site, max_pages, multithread, start_urls, max_depth,
                   visited_urls, crawled_pages, pwc, current, calls>>

\* lines 247-258: the entry is taken, marked visited and handed to
\* _crawl_single_page
CrawlTake ==
    /\ pwc = "loop"
    /\ LoopRuns(url_queue, visited_urls, max_pages)
    /\ ~SeenBefore(Head(url_queue).url, visited_urls)
    /\ url_queue' = Tail(url_queue)
    /\ visited_urls' = visited_urls \cup {Head(url_queue).url}
    /\ current' = Head(url_queue)
    /\ calls' = Append(calls, Head(url_queue))
    /\ pwc' = "page"
    /\ UNCHANGED <<site, max_pages, multithread, start_urls, max_depth,
                   crawled_pages>>

\* _crawl_single_page, lines 207-240: a failed request returns False; a
\* page is recorded and, below max_depth, its internal links are appended
CrawlSinglePage ==
    /\ pwc = "page"
    /\ LET page == HttpGet(site, current.url)
       IN  IF ~page.ok
           THEN UNCHANGED <<url_queue, crawled_pages>>
           ELSE /\ crawled_pages' =
                       Append(crawled_pages,
                              [url |-> current.url,
                               title |-> IF page.title = "" THEN "Kein Titel"
                                         ELSE page.title])
                /\ IF DepthAllows(current.depth, max_depth)
                   THEN \E order \in Orders(links_internal(current.url, page,
                                                           visited_urls)) :
                            url_queue' = AppendLinks(order, url_queue, visited_urls,
                                                     max_pages, current.depth)
                   ELSE UNCHANGED url_queue
    /\ current' = NoEntry
    /\ pwc' = "loop"
    /\ UNCHANGED <<site, max_pages, multithread, start_urls, max_depth,
                   visited_urls, calls>>

\* lines 247, 265-266: the loop ends and crawl() returns
CrawlReturn ==
    /\ pwc = "loop"
    /\ ~LoopRuns(url_queue, visited_urls, max_pages)
    /\ pwc' = "done"
    /\ UNCHANGED <<site, max_pages, multithread, start_urls, max_depth,
                   visited_urls, url_queue, crawled_pages, current, calls>>

NextSeq ==
    \/ CrawlBegin
    \/ CrawlSkip
    \/ CrawlTake
    \/ CrawlSinglePage
    \/ CrawlReturn

SpecSeq == InitSeq /\ [][NextSeq]_vars

(***************************************************************************)
(* DataManager on its own: a store loaded from a file, then any sequence   *)
(* of add_or_update calls.                                                 *)
(***************************************************************************)
Names == {Root, <<"example.com", "/", "a">>, <<"example.com", "/", "b">>}
Titles == {"No Title", "T"}

InitDM ==
    \E f \in Files :
        /\ site = "scenario"
        /\ start_url = Root
        /\ max_pages = 0
        /\ max_workers = 1
        /\ robot_parser = NoRobots
        /\ json_file = f
        /\ stats = NoStats
        /\ data = LoadData(f)
        /\ clock = 0
        /\ is_new = FALSE
        /\ to_visit = <<Root>>
        /\ to_visit_set = {normalize_url(Root)}
        /\ visited = { }
        /\ processed_names = { }
        /\ lock = 0
        /\ state = "Idle"
        /\ pc = [i \in 1..1 |-> "new"]
        /\ url = [i \in 1..1 |-> << >>]
        /\ norm = [i \in 1..1 |-> << >>]
        /\ html = [i \in 1..1 |-> NoHtml]
        /\ title = [i \in 1..1 |-> ""]
        /\ links = [i \in 1..1 |-> << >>]
        /\ name = [i \in 1..1 |-> << >>]
        /\ taken = << >>
        /\ requested = { }
        /\ observed = [n \in { } |-> ""]
        /\ appended = <<Root>>
        /\ dequeued = << >>
        /\ raised = { }
        /\ NoPythonWebCrawler

Upsert(nm, t) ==
    /\ \E now \in Nows(clock) :
          LET r == add_or_update(data, nm, t, now)
          IN  /\ data' = r.data
              /\ is_new' = r.is_new
              /\ clock' = now
    /\ UNCHANGED <<config, files, processed_names, frontier, lock, state, pc,
                   locals, history>>

NextDM == \E nm \in Names, t \in Titles : Upsert(nm, t)

SpecDM == InitDM /\ [][NextDM]_vars

(***************************************************************************)
(* DataManager from its construction on: a state file of any kind is       *)
(* loaded, then the store is upserted once and saved.  An exception that   *)
(* reaches the caller ends the run in state "Fatal".                       *)
(***************************************************************************)
InitLoad ==
    \E f \in LoadFiles :
        /\ site = "scenario"
        /\ start_url = Root
        /\ max_pages = 0
        /\ max_workers = 1
        /\ robot_parser = NoRobots
        /\ json_file = f
        /\ stats = NoStats
        /\ data = EmptyDict
        /\ clock = 0
        /\ is_new = FALSE
        /\ to_visit = <<Root>>
        /\ to_visit_set = {normalize_url(Root)}
        /\ visited = { }
        /\ processed_names = { }
        /\ lock = 0
        /\ state = "New"
        /\ pc = [i \in 1..1 |-> "new"]
        /\ url = [i \in 1..1 |-> << >>]
        /\ norm = [i \in 1..1 |-> << >>]
        /\ html = [i \in 1..1 |-> NoHtml]
        /\ title = [i \in 1..1 |-> ""]
        /\ links = [i \in 1..1 |-> << >>]
        /\ name = [i \in 1..1 |-> << >>]
        /\ taken = << >>
        /\ requested = { }
        /\ observed = [n \in { } |-> ""]
        /\ appended = <<Root>>
        /\ dequeued = << >>
        /\ raised = { }
        /\ NoPythonWebCrawler

\* DataManager.__init__: self.data = self._load_data()
Load ==
    /\ state = "New"
    /\ IF LoadRaises(json_file)
       THEN /\ state' = "Fatal"
            /\ UNCHANGED data
       ELSE /\ state' = "Loaded"
            /\ data' = LoadData(json_file)
    /\ UNCHANGED <<config, files, clock, is_new, processed_names, frontier, lock,
                   pc, locals, history>>

\* The first add_or_update on the loaded value; TypeError when it is no dict
UpsertLoaded(nm, t) ==
    /\ state = "Loaded"
    /\ IF IsMapping(data)
       THEN /\ \E now \in Nows(clock) :
                  LET r == add_or_update(data, nm, t, now)
                  IN  /\ data' = r.data
                      /\ is_new' = r.is_new
                      /\ clock' = now
            /\ state' = "Updated"
       ELSE /\ state' = "Fatal"
            /\ UNCHANGED <<data, is_new, clock>>
    /\ UNCHANGED <<config, files, processed_names, frontier, lock, pc, locals,
                   history>>

\* DataManager.save: json.dump writes the value; len(self.data) in the log
\* line that follows raises TypeError for a number or null.
SaveLoaded ==
    /\ state \in {"Loaded", "Updated"}
    /\ json_file' = IF IsMapping(data)
                    THEN [kind |-> "dict", items |-> << >>, data |-> data]
                    ELSE [kind |-> "scalar", items |-> << >>, data |-> EmptyDict]
    /\ state' = IF IsMapping(data) THEN "Saved" ELSE "Fatal"
    /\ UNCHANGED <<config, stats, store, frontier, lock, pc, locals, history>>

NextLoad ==
    \/ Load
    \/ \E nm \in Names, t \in Titles : UpsertLoaded(nm, t)
    \/ SaveLoaded

SpecLoad == InitLoad /\ [][NextLoad]_vars

(***************************************************************************)
(* normalize_url on its own: a URL of the crawl's host, normalized once    *)
(* and then once more.                                                     *)
(***************************************************************************)
\* The URLs https://example.com<rest>, rest any string of up to MaxUrlLen
\* characters out of "/", "a", "?" and "#" that does not go on with the
\* host name.
Urls ==
    { <<"example.com">> \o r :
          r \in { x \in UNION { [1..n -> {"/", "a", "?", "#"}] : n \in 0..MaxUrlLen } :
                     x = << >> \/ x[1] /= "a" } }

InitNorm ==
    \E u \in Urls :
        /\ site = "scenario"
        /\ start_url = Root
        /\ max_pages = 0
        /\ max_workers = 1
        /\ robot_parser = NoRobots
        /\ json_file = [kind |-> "missing", items |-> << >>, data |-> EmptyDict]
        /\ stats = NoStats
        /\ data = EmptyDict
        /\ clock = 0
        /\ is_new = FALSE
        /\ to_visit = <<Root>>
        /\ to_visit_set = {normalize_url(Root)}
        /\ visited = { }
        /\ processed_names = { }
        /\ lock = 0
        /\ state = "Idle"
        /\ pc = [i \in 1..1 |-> "new"]
        /\ url = [i \in 1..1 |-> u]
        /\ norm = [i \in 1..1 |-> << >>]
        /\ html = [i \in 1..1 |-> NoHtml]
        /\ title = [i \in 1..1 |-> ""]
        /\ links = [i \in 1..1 |-> << >>]
        /\ name = [i \in 1..1 |-> << >>]
        /\ taken = << >>
        /\ requested = { }
        /\ observed = [n \in { } |-> ""]
        /\ appended = <<Root>>
        /\ dequeued = << >>
        /\ raised = { }
        /\ NoPythonWebCrawler

\* norm = self.normalize_url(url)
Normalize ==
    /\ pc[1] = "new"
    /\ norm' = [norm EXCEPT ![1] = normalize_url(url[1])]
    /\ pc' = [pc EXCEPT ![1] = "normalized"]
    /\ UNCHANGED <<config, files, store, frontier, lock, state, url, html, title,
                   links, name, history>>

\* the result is normalized once more, as worker() does with a link that
\* extract_title_and_links normalized
NormalizeAgain ==
    /\ pc[1] = "normalized"
    /\ url' = [url EXCEPT ![1] = norm[1]]
    /\ norm' = [norm EXCEPT ![1] = normalize_url(norm[1])]
    /\ pc' = [pc EXCEPT ![1] = "renormalized"]
    /\ UNCHANGED <<config, files, store, frontier, lock, state, html, title,
                   links, name, history>>

NextNorm == Normalize \/ NormalizeAgain

SpecNorm == InitNorm /\ [][NextNorm]_vars

(***************************************************************************)
(* Properties                                                              *)
(***************************************************************************)
AllDone == \A w \in Workers : pc[w] = "done"

\* C1: under any interleaving of the workers, no normalized key is taken
\* from the frontier and passed to fetch more than once.
C1_TakenAtMostOnce ==
    \A i, j \in 1..Len(taken) : taken[i] = taken[j] => i = j

\* Two workers are fetching at the same time, three keys having been taken.
C1_Witness ==
    /\ \E v, w \in Workers : v /= w /\ pc[v] = "fetch" /\ pc[w] = "fetch"
    /\ Len(taken) >= 3

\* C2: in every reachable state |visited| <= max_pages, for max_pages >= 0.
C2_VisitedWithinBudget == Cardinality(visited) <= max_pages

\* The budget is reached by two workers with a page budget of at least 3.
C2_Witness ==
    /\ Cardinality(visited) = max_pages
    /\ max_pages >= 3
    /\ max_workers >= 2
    /\ \E w \in Workers : pc[w] = "done"

\* The identities of a store with their titles.
Content(d) == [n \in DOMAIN d |-> d[n].title]

\* The crawl as one worker alone runs it (the loop of worker(), every step
\* in program order), from the given frontier and store content.
RECURSIVE SingleWorkerRun(_, _, _, _, _)
SingleWorkerRun(tv, tvs, vis, pn, ct) ==
    IF Exhausted(tv, vis, max_pages) THEN ct
    ELSE
      LET u    == Head(tv)
          n    == normalize_url(u)
          tv1  == PopLeft(tv)
          tvs1 == tvs \ {n}
      IN  IF AlreadyVisited(n, vis) THEN SingleWorkerRun(tv1, tvs1, vis, pn, ct)
          ELSE
            LET vis1 == vis \cup {n}
                r    == fetch(site, robot_parser, u)
            IN  IF ~r.html.ok THEN SingleWorkerRun(tv1, tvs1, vis1, pn, ct)
                ELSE
                  LET e   == extract_title_and_links(u, r.html, domain)
                      nm  == make_name_from_url(u)
                      ct1 == IF nm \in pn THEN ct
                             ELSE [k \in DOMAIN ct \cup {nm} |->
                                     IF k = nm THEN e.title ELSE ct[k]]
                      q   == EnqueueLinks(e.links, tv1, tvs1, vis1, max_pages)
                  IN  SingleWorkerRun(q.to_visit, q.to_visit_set, vis1,
                                      pn \cup {nm}, ct1)

\* C3: for a fixed seed, page budget and site, the final store content
\* (identities with titles) is the same for every worker count and every
\* interleaving: it is the content the single-worker crawl ends with.
C3_SameStoreForEveryInterleaving ==
    state = "Draining" =>
        Content(data) = SingleWorkerRun(<<start_url>>, {normalize_url(start_url)},
                                        { }, { }, Content(LoadData(json_file)))

\* C4: a normalized key is in at most one of the pending queue and the
\* visited set, and occurs at most once in the pending queue.
C4_QueuedXorVisited ==
    /\ \A i \in 1..Len(to_visit) : normalize_url(to_visit[i]) \notin visited
    /\ \A i, j \in 1..Len(to_visit) :
          normalize_url(to_visit[i]) = normalize_url(to_visit[j]) => i = j

\* C5: every worker eventually terminates, and the coordinator then leaves
\* the Running state.
C5_WorkersTerminate == <>(AllDone /\ state /= "Running")

\* A crawl of two workers that visited three pages has come to its end.
C5_Witness ==
    /\ AllDone
    /\ state = "Done"
    /\ max_workers >= 2
    /\ Cardinality(visited) >= 3

\* C6: every URL in the frontier, held by a worker for fetching, or
\* requested has the host of the start URL.
C6_SameDomainOnly ==
    /\ \A i \in 1..Len(to_visit) : UrlParse(to_visit[i]).netloc = domain
    /\ \A w \in Workers : url[w] /= << >> => UrlParse(url[w]).netloc = domain
    /\ \A u \in requested : UrlParse(u).netloc = domain
    /\ \A i \in 1..Len(taken) : UrlParse(taken[i]).netloc = domain

\* The links of the scenario's root page (/a, /b, https://other.com/c) have
\* been through extraction and the enqueue loop.
C6_Witness ==
    /\ site = "scenario"
    /\ to_visit = << <<"example.com", "/", "a">>, <<"example.com", "/", "b">> >>

ScenarioRun ==
    /\ site = "scenario"
    /\ start_url = Root
    /\ max_pages = 3
    /\ json_file.kind = "missing"
    /\ state = "Draining"

\* C7 as stated: the scenario of spec section 8 ends with exactly the
\* identities example.com, example.com/a and example.com/b.
C7_ScenarioAsStated ==
    ScenarioRun =>
        DOMAIN data = { <<"example.com">>, <<"example.com", "/", "a">>,
                        <<"example.com", "/", "b">> }

\* C7 amended: the scenario ends with exactly the identities example.com/
\* (the root path keeps its slash), example.com/a and example.com/b, for
\* any worker count.
C7_ScenarioIdentities ==
    ScenarioRun =>
        DOMAIN data = { <<"example.com", "/">>, <<"example.com", "/", "a">>,
                        <<"example.com", "/", "b">> }

\* The scenario has been crawled by two workers.
C7_Witness == ScenarioRun /\ max_workers = 2

\* C8: a URL that robots.txt disallows is never requested, and (when the
\* store did not hold it at the start) the identity of a disallowed URL a
\* worker took is not in the store.
C8_DisallowedNeverRequested ==
    robot_parser /= NoRobots =>
        /\ \A u \in requested : ~RobotsDisallows(robot_parser, u)
        /\ state \in {"Idle", "Running", "Draining"} =>
              \A w \in Workers :
                  (url[w] /= << >> /\ RobotsDisallows(robot_parser, url[w])) =>
                      \/ make_name_from_url(url[w]) \notin DOMAIN data
                      \/ make_name_from_url(url[w]) \in DOMAIN LoadData(json_file)

\* What add_or_update(nm, t) promises, read at time now, from store d to
\* store e with return value ret.
UpsertContract(d, nm, t, now, e, ret) ==
    IF nm \notin DOMAIN d
    THEN /\ ret = TRUE
         /\ DOMAIN e = DOMAIN d \cup {nm}
         /\ e[nm] = Rec(nm, t, now, now)
         /\ \A k \in DOMAIN d : e[k] = d[k]
    ELSE /\ ret = FALSE
         /\ DOMAIN e = DOMAIN d
         /\ e[nm].title = t
         /\ e[nm].last_crawled = now
         /\ e[nm].first_crawled = d[nm].first_crawled
         /\ e[nm].name = d[nm].name
         /\ \A k \in DOMAIN d \ {nm} : e[k] = d[k]

\* C9: every add_or_update call keeps its contract; so a record, once
\* there, keeps its first_crawled, and a last_crawled that is set never
\* decreases.
C9_UpsertContract ==
    [][ /\ \E nm \in Names, t \in Titles :
              UpsertContract(data, nm, t, clock', data', is_new')
        /\ \A k \in DOMAIN data :
              /\ k \in DOMAIN data'
              /\ data'[k].first_crawled = data[k].first_crawled
              /\ data[k].last_crawled /= Null =>
                    data[k].last_crawled <= data'[k].last_crawled ]_vars

\* A record that was created, and updated at a later time with a new title.
C9_Witness ==
    \E k \in DOMAIN data :
        /\ k \notin DOMAIN LoadData(json_file)
        /\ data[k].first_crawled = 0
        /\ data[k].last_crawled = 1
        /\ ~is_new

\* first_seen <= last_seen, for two timestamps that may be null.
SeenInOrder(r) ==
    \/ r.first_crawled = Null /\ r.last_crawled = Null
    \/ /\ r.first_crawled /= Null
       /\ r.last_crawled /= Null
       /\ r.first_crawled <= r.last_crawled

\* C10 as stated: every record of the store satisfies
\* first_seen <= last_seen, records of a legacy file included.
C10_FirstSeenLeqLastSeen == \A k \in DOMAIN data : SeenInOrder(data[k])

\* C10 amended: every record whose first_seen is set has a last_seen that
\* is set and not earlier; a record of a legacy file keeps first_seen null.
C10_FirstSeenLeqLastSeenWhenSet ==
    \A k \in DOMAIN data :
        /\ data[k].first_crawled /= Null =>
              /\ data[k].last_crawled /= Null
              /\ data[k].first_crawled <= data[k].last_crawled
        /\ (k \in DOMAIN LoadData(json_file)
              /\ LoadData(json_file)[k].first_crawled = Null) =>
                  data[k].first_crawled = Null

\* A record loaded from a legacy file has been updated, next to a record
\* that was created and then updated at a later time.
C10_Witness ==
    /\ json_file.kind = "list"
    /\ \E k \in DOMAIN data :
          data[k].first_crawled = Null /\ data[k].last_crawled = 1
    /\ \E k \in DOMAIN data :
          data[k].first_crawled = 0 /\ data[k].last_crawled = 1

\* C11: after a crawl, for every identity observed in that crawl, the stored
\* title is the title of the page of that identity that was fetched and
\* extracted last.
C11_StoredTitleIsLastObserved ==
    state = "Draining" =>
        \A k \in DOMAIN observed : k \in DOMAIN data /\ data[k].title = observed[k]

\* C12: load never fails and always yields a mapping identity -> record (a
\* missing or unparseable file gives the empty store), and upsert and save
\* work on the store it yields, for every content of the state file.
C12_LoadYieldsUsableStore ==
    /\ state /= "Fatal"
    /\ state /= "New" => IsMapping(data)
    /\ (state = "Loaded" /\ json_file.kind \in {"missing", "corrupt", "undecodable"})
           => data = EmptyDict

\* The well-formed items of a legacy list: lists of length >= 2.
Pairs(items) ==
    { i \in 1..Len(items) : items[i].islist /\ Len(items[i].elems) >= 2 }

\* C13: loading a legacy list yields exactly one record per distinct
\* identity of its well-formed items, with the identity as key and name, a
\* title of that identity preserved (the one listed last), and both
\* timestamps null; the other items are dropped and the load does not fail.
C13_LegacyListConverted ==
    (state = "Loaded" /\ json_file.kind = "list") =>
        LET items == json_file.items
        IN  /\ DOMAIN data = { items[i].elems[1] : i \in Pairs(items) }
            /\ \A k \in DOMAIN data :
                  /\ data[k].name = k
                  /\ data[k].first_crawled = Null
                  /\ data[k].last_crawled = Null
                  /\ \E i \in Pairs(items) :
                        /\ items[i].elems[1] = k
                        /\ items[i].elems[2] = data[k].title
                        /\ \A j \in Pairs(items) : items[j].elems[1] = k => j <= i

\* A legacy list with two pairs of one identity around an item that is no
\* list has been loaded.
C13_Witness ==
    /\ state = "Loaded"
    /\ json_file.kind = "list"
    /\ Len(json_file.items) = 3
    /\ json_file.items[1].elems = <<Root, "Old">>
    /\ ~json_file.items[2].islist
    /\ json_file.items[3].elems = <<Root, "New">>
    /\ data[Root].title = "New"

\* C14: normalize is idempotent: normalizing a normalized URL gives the
\* same URL, also with a fragment, trailing slashes, and a query that is
\* empty or ends in "/".
C14_NormalizeIdempotent ==
    pc[1] = "renormalized" => norm[1] = url[1]

\* C15: when fetch of a taken URL yields no page data (non-2xx status or
\* robots disallow), the worker does not terminate: it goes back to take the
\* next frontier entry, the store and the pending queue are unchanged, and
\* the URL's key stays in visited.
C15_NoPageSkipsUrl ==
    [][ \A w \in Workers :
          (pc[w] = "fetch" /\ pc'[w] \notin {"fetch", "extract"}) =>
              /\ pc'[w] = "lock_take"
              /\ data' = data
              /\ processed_names' = processed_names
              /\ to_visit' = to_visit
              /\ to_visit_set' = to_visit_set
              /\ visited' = visited
              /\ norm[w] \in visited' ]_vars

\* A single worker got a 404 for /z and is now processing /a, the entry
\* queued behind it.
C15_Witness ==
    /\ site = "query"
    /\ max_workers = 1
    /\ <<"example.com", "/", "z">> \in requested
    /\ <<"example.com", "/", "z">> \in visited
    /\ pc[1] = "extract"
    /\ url[1] = <<"example.com", "/", "a">>

\* C16: an exception raised in one worker at any point of its loop, also
\* inside a critical section, ends only that worker: the lock is not left
\* with it, no other worker's position changes, the workers that are left
\* can enter the critical sections, and the coordinator completes the join.
C16_RaiseEndsOnlyThatWorker ==
    /\ [](\A w \in Workers : pc[w] = "failed" => lock /= w)
    /\ [][ \A w \in Workers :
             (pc[w] /= "failed" /\ pc'[w] = "failed") =>
                 \A v \in Workers \ {w} : pc'[v] = pc[v] ]_vars
    /\ <>(state \notin {"Idle", "Running"})

\* Worker 1 raised inside a critical section; after that worker 2 took the
\* lock again and the coordinator joined both with three pages visited.
C16_Witness ==
    /\ max_workers = 2
    /\ \E r \in raised : r.worker = 1 /\ r.locked
    /\ pc[2] = "done"
    /\ state = "Draining"
    /\ Cardinality(visited) = 3
    /\ Cardinality(DOMAIN data) >= 2

\* C17: every run reaches Done: after the workers have terminated the store
\* is persisted and then the summary statistics are computed, for every
\* store content that load can produce, records of a legacy file with null
\* timestamps included.
C17_RunReachesDone ==
    <>(/\ state = "Done"
       /\ stats.ok
       /\ json_file = [kind |-> "dict", items |-> << >>, data |-> data])

\* The workers that are inside one of the three critical sections.
InCritical == { w \in Workers : pc[w] \in {"take", "store", "links"} }

\* C18: every mutation of the pending queue, the queued set, the visited
\* set, the processed-names set and the store is a step of the worker that
\* holds the lock, inside a critical section; at most one worker is inside
\* a critical section.
C18_MutationsUnderLock ==
    /\ [](Cardinality(InCritical) <= 1 /\ InCritical \subseteq {lock})
    /\ [][ <<to_visit, to_visit_set, visited, processed_names, data>>'
               /= <<to_visit, to_visit_set, visited, processed_names, data>>
           => /\ lock \in InCritical
              /\ pc'[lock] /= pc[lock]
              /\ \A v \in Workers \ {lock} : pc'[v] = pc[v] ]_vars

\* Worker 1 is in the link loop with the lock while worker 2 waits for the
\* lock to store its page.
C18_Witness ==
    /\ max_workers = 2
    /\ lock = 1
    /\ pc[1] = "links"
    /\ links[1] /= << >>
    /\ pc[2] = "lock_store"

\* C19: no worker holds the lock while it fetches or extracts; several
\* workers can be in fetch or extraction at the same time while another
\* worker is inside a critical section.
C19_NoLockDuringFetch ==
    \A w \in Workers : pc[w] \in {"fetch", "extract"} => lock /= w

\* Workers 2 and 3 are in fetch or extraction while worker 1 is inside a
\* critical section.
C19_Witness ==
    /\ pc[2] \in {"fetch", "extract"}
    /\ pc[3] \in {"fetch", "extract"}
    /\ pc[1] \in {"take", "store", "links"}
    /\ lock = 1

\* C20: frontier entries are taken in strict FIFO order under any
\* interleaving: the entries dequeued so far are, in the order of their
\* dequeue, the entries appended first, and the pending queue holds the
\* others in the order of their append.
C20_TakenInFifoOrder ==
    /\ appended = dequeued \o to_visit
    /\ \A i \in 1..Len(taken) :
          \E j \in 1..Len(dequeued) :
              /\ normalize_url(dequeued[j]) = taken[i]
              /\ \A k \in 1..(i - 1) :
                    \E m \in 1..(j - 1) : normalize_url(dequeued[m]) = taken[k]

\* Two workers have dequeued three entries, one more waits in the queue.
C20_Witness ==
    /\ max_workers = 2
    /\ Len(dequeued) = 3
    /\ Len(appended) >= 4
    /\ \E w \in Workers : pc[w] = "fetch"

\* C21: for max_pages >= 1 the visited keys and the pending entries together
\* never exceed max_pages: the link loop appends only below the budget and
\* stops at the first link that would exceed it.
C21_FrontierWithinBudget ==
    max_pages >= 1 => Cardinality(visited) + Len(to_visit) <= max_pages

\* The seed page's links filled the budget of four: three were appended and
\* the loop stopped before the last link, /z.
C21_Witness ==
    /\ site = "private"
    /\ start_url = Root
    /\ max_pages = 4
    /\ visited = {Root}
    /\ Len(to_visit) = 3
    /\ <<"example.com", "/", "z">> \notin to_visit_set

\* C22: whenever the lock is free, the queued set is exactly the set of the
\* normalized keys of the pending entries.
C22_QueuedSetMirrorsPending ==
    LockFree(lock) =>
        to_visit_set = { normalize_url(to_visit[i]) : i \in DOMAIN to_visit }

\* C24: when all workers of a crawl without exceptions have terminated, the
\* pending queue is empty or the budget is used up; every entry that was
\* appended has been taken unless the budget is used up.
C24_FinishedMeansExhausted ==
    state \in {"Draining", "Saved", "Done", "Fatal"} =>
        /\ to_visit = << >> \/ Cardinality(visited) >= max_pages
        /\ Len(dequeued) = Len(appended) \/ Cardinality(visited) >= max_pages

\* Two workers have finished a site of three pages below the budget.
C24_Witness ==
    /\ state = "Draining"
    /\ max_workers = 2
    /\ to_visit = << >>
    /\ Cardinality(visited) = 3
    /\ Cardinality(visited) < max_pages
    /\ Len(dequeued) = Len(appended)

\* C29: the re-check after the dequeue never skips an entry: every entry
\* taken from the pending queue adds one new key to visited.
C29_RecheckNeverTaken ==
    Cardinality(visited) = Len(dequeued)

\* C25: a worker that finds the pending queue empty terminates at once and
\* is never restarted, even while another worker is still working on a page
\* whose links are enqueued later.
C25_ExitIsFinal ==
    [][ \A w \in Workers :
          /\ pc[w] = "done" => pc'[w] = "done"
          /\ (pc[w] = "take" /\ to_visit = << >> /\ pc'[w] /= "take")
                 => pc'[w] = "done" ]_vars

\* Of two workers, one has terminated on the empty queue while the other
\* holds the seed page and has not yet enqueued its links.
C25_Witness ==
    /\ max_workers = 2
    /\ max_pages >= 3
    /\ pc[2] = "done"
    /\ pc[1] = "links"
    /\ url[1] = start_url
    /\ links[1] /= << >>
    /\ visited = {normalize_url(start_url)}
    /\ to_visit = << >>

\* C26: within one crawl the store's upsert runs at most once per identity:
\* a fetched page whose identity is already in processed_names changes
\* neither the store nor its timestamps, and its links still go to the link
\* loop; the store changes only in the step that records a new identity,
\* and only in that identity's record.
C26_UpsertOncePerIdentity ==
    [][ /\ \A w \in Workers :
             (pc[w] = "store" /\ pc'[w] /= "store") =>
                 IF name[w] \in processed_names
                 THEN /\ data' = data
                      /\ processed_names' = processed_names
                      /\ pc'[w] = "lock_links"
                      /\ links'[w] = links[w]
                 ELSE /\ processed_names' = processed_names \cup {name[w]}
                      /\ \A k \in DOMAIN data \ {name[w]} :
                             k \in DOMAIN data' /\ data'[k] = data[k]
        /\ processed_names \subseteq processed_names'
        /\ data' /= data =>
               \E w \in Workers : pc[w] = "store" /\ name[w] \notin processed_names
      ]_vars

\* /a?x was stored first; /a, of the same identity, was fetched later and
\* left the record as it was, and its link /b has been enqueued.
C26_Witness ==
    /\ site = "alias"
    /\ <<"example.com", "/", "b">> \in to_visit_set
    /\ \E k \in DOMAIN data \cap DOMAIN observed :
           data[k].title = "AX" /\ observed[k] = "A"

\* C23: after an interrupt has reached the coordinator during Running, no
\* worker takes a further entry from the pending queue.
C23_InterruptStopsTaking ==
    [][ state = "Interrupted" => dequeued' = dequeued ]_vars

\* C27: the sequential crawler passes each URL string to _crawl_single_page
\* at most once although the queue may hold it several times, visited_urls
\* never has more than max_pages members, and every URL passed on, also one
\* whose request fails, is a member of visited_urls and counts against
\* max_pages.
C27_EachUrlCrawledOnce ==
    /\ \A i, j \in DOMAIN calls : i /= j => calls[i].url /= calls[j].url
    /\ Cardinality(visited_urls) <= max_pages
    /\ \A i \in DOMAIN calls : calls[i].url \in visited_urls
    /\ Cardinality(visited_urls) = Len(calls)
    /\ Len(crawled_pages) <= Len(calls)

\* The queue held the start URL twice and a dead start URL: four URLs were
\* passed on, one of them without a page, and the budget of four is used up.
C27_Witness ==
    /\ site = "scenario"
    /\ pwc = "done"
    /\ max_pages = 4
    /\ Len(calls) = 4
    /\ Len(crawled_pages) = 3
    /\ <<"example.com", "/", "z">> \in visited_urls

\* C28: with max_depth >= 0 every queue entry and every requested page has a
\* depth of at most max_depth; start URLs are queued with depth 0; a page of
\* depth d has its links appended with depth d+1, and only if d < max_depth.
C28_DepthWithinMax ==
    /\ [](max_depth >= 0 =>
            /\ \A i \in DOMAIN url_queue : url_queue[i].depth <= max_depth
            /\ \A i \in DOMAIN calls : calls[i].depth <= max_depth)
    /\ [](pwc = "new" =>
            url_queue = [i \in DOMAIN start_urls |-> [url |-> start_urls[i], depth |-> 0]])
    /\ [][ pwc = "page" =>
             /\ Len(url_queue') >= Len(url_queue)
             /\ SubSeq(url_queue', 1, Len(url_queue)) = url_queue
             /\ \A i \in (Len(url_queue) + 1)..Len(url_queue') :
                    /\ url_queue'[i].depth = current.depth + 1
                    /\ current.depth < max_depth ]_vars

\* With max_depth = 1 the pages of depth 1 were crawled and their links
\* (/c, /d) were not appended, although the budget had room for one more.
C28_Witness ==
    /\ site = "tree"
    /\ max_depth = 1
    /\ max_pages = 4
    /\ pwc = "done"
    /\ Len(crawled_pages) = 3
    /\ \A i \in DOMAIN calls : calls[i].depth <= 1
    /\ \E i \in DOMAIN calls : calls[i].depth = 1

====
